---- MODULE Spec2Model ----
\* Model of object_pool_rs (src/src/object_pool.rs): ObjectPool<T>, PoolBox<T>
\* and the Poolable capability of the test type TestObject.
\*
\* A raw handle (*mut T) is an address.  A Box<T> held in `items` owns the
\* address it was allocated at; the allocator may hand out any address that
\* is not currently live, so an address freed by clear() can come back.
\* Writing through a dangling handle is undefined behaviour; its outcomes
\* are modelled by the allocator's choice: the write is lost when the
\* address is still free, and lands in the new instance when the address
\* has been handed out again.
EXTENDS Integers, Sequences, FiniteSets, TLC

\* ---------------------------------------------------------------- bounds
NAddr    == 2
MaxAvail == 2
MaxOut   == 2
MaxOps   == 3

\* ------------------------------------------------------------- constants
NULL         == 0
DefaultValue == 0
Written      == 10
Freed        == -1

Addr    == 1..NAddr
Handles == Addr \cup {NULL}
Vals    == {DefaultValue, Written}

VARIABLES
    items,      \* ObjectPool.items: Vec<Box<T>>, as the addresses of the boxes
    available,  \* ObjectPool.available: Vec<*mut T>
    mem,        \* TestObject.value at each address, Freed when not allocated
    boxes,      \* the caller's live PoolBox values: how many hold each item
    held,       \* the caller's raw handles: how many copies of each
    lent,       \* history: instances returned by get and not released since
    last,       \* history: the last operation performed
    prev,       \* history: the operation before it
    acq,        \* history: the current run of PoolBox acquisitions
    tally,      \* history: how many get and release calls were made
    twin        \* a standalone ObjectPool given the corresponding raw calls

vars ==
    <<items, available, mem, boxes, held, lent, last, prev, acq, tally, twin>>

Range(s) == {s[i] : i \in 1..Len(s)}

RECURSIVE SumOver(_, _)
SumOver(f, S) ==
    IF S = {} THEN 0
    ELSE LET x == CHOOSE y \in S : TRUE IN f[x] + SumOver(f, S \ {x})

\* The PoolBox values and raw handles the caller has.
OutCount == SumOver(boxes, Handles) + SumOver(held, Addr)

\* ------------------------------------------------------------- Poolable
PoolableNew == DefaultValue

PoolableReset_Noop(v) == v

PoolableReset(v) == DefaultValue

\* ------------------------------------------------------------ the heap
\* (*p).value = v through a raw handle.
Store(m, p, v) == IF m[p] = Freed THEN m ELSE [m EXCEPT ![p] = v]

\* ------------------------------------------------------------ ObjectPool
\* A pool state is [items, available, mem].
PoolNew == [items |-> <<>>, available |-> <<>>, mem |-> [a \in Addr |-> Freed]]

PushItem_Forget(st, a) ==
    [st EXCEPT !.mem = [@ EXCEPT ![a] = PoolableNew]]

\* let mut item = Box::new(T::new()); ...; self.items.push(item)
PushItem(st, a) ==
    [st EXCEPT !.items = Append(@, a), !.mem = [@ EXCEPT ![a] = PoolableNew]]

PushAvailable_Twice(av, ptr) == Append(Append(av, ptr), ptr)

PushAvailable(av, ptr) == Append(av, ptr)

ReserveIter_NoAvail(st, a) == PushItem(st, a)

ReserveIter(st, a) ==
    [PushItem(st, a) EXCEPT !.available = PushAvailable(@, a)]

\* reserve(count), `as` being the addresses the count allocations return.
RECURSIVE PoolReserve(_, _)
PoolReserve(st, as) ==
    IF as = <<>> THEN st
    ELSE PoolReserve(ReserveIter(st, Head(as)), Tail(as))

\* The sequences of n addresses n successive allocations can return.
RECURSIVE AllocSeqs(_, _)
AllocSeqs(free, n) ==
    IF n = 0 THEN {<<>>}
    ELSE UNION {{<<a>> \o s : s \in AllocSeqs(free \ {a}, n - 1)} : a \in free}

GetTakesFree_Never(av) == FALSE

GetTakesFree(av) == av # <<>>

PoolGet_Peek(st, a) ==
    IF GetTakesFree(st.available)
    THEN [st |-> st, ptr |-> st.available[Len(st.available)]]
    ELSE [st |-> PushItem(st, a), ptr |-> a]

PoolGet_Fifo(st, a) ==
    IF GetTakesFree(st.available)
    THEN [st  |-> [st EXCEPT !.available = Tail(@)],
          ptr |-> Head(st.available)]
    ELSE [st |-> PushItem(st, a), ptr |-> a]

\* get(): [st, ptr], `a` being the address a new allocation would return.
PoolGet(st, a) ==
    IF GetTakesFree(st.available)
    THEN [st  |-> [st EXCEPT !.available = SubSeq(@, 1, Len(@) - 1)],
          ptr |-> st.available[Len(st.available)]]
    ELSE [st |-> PushItem(st, a), ptr |-> a]

ResetAt(m, item) ==
    IF m[item] = Freed THEN m ELSE Store(m, item, PoolableReset(m[item]))

PoolRelease_NoPush(st, item) == [st EXCEPT !.mem = ResetAt(@, item)]

PoolRelease_IntoItems(st, item) ==
    [st EXCEPT !.mem = ResetAt(@, item),
               !.items = Append(@, item)]

PoolRelease(st, item) ==
    [st EXCEPT !.mem = ResetAt(@, item),
               !.available = PushAvailable(@, item)]

ClearAvailable_Keep(av) == av

ClearAvailable(av) == <<>>

PoolClear(st) ==
    [items |-> <<>>, available |-> ClearAvailable(st.available),
     mem |-> [a \in Addr |-> Freed]]

ReleaseAllIter(st, item) ==
    [st EXCEPT !.mem = ResetAt(@, item),
               !.available = PushAvailable(@, item)]

RECURSIVE ReleaseAllFrom(_, _)
ReleaseAllFrom(st, i) ==
    IF i > Len(st.items) THEN st
    ELSE ReleaseAllFrom(ReleaseAllIter(st, st.items[i]), i + 1)

PoolReleaseAll(st) == ReleaseAllFrom(st, 1)

PoolLen(st) == Len(st.items)

PoolAvailable(st) == Len(st.available)

\* --------------------------------------------------------------- PoolBox
\* PoolBox { item: item, pool: pool } added to the caller's PoolBox values.
BoxNew(bxs, item) == [bxs EXCEPT ![item] = @ + 1]

BoxGone(bxs, item) == [bxs EXCEPT ![item] = @ - 1]

ExtractedItem_Keep(item) == item

ExtractedItem(item) == NULL

\* extract() on a PoolBox whose item is `item`.
BoxExtract(bxs, item) == BoxNew(BoxGone(bxs, item), ExtractedItem(item))

DropReleases_Never(item) == FALSE

DropReleases(item) == item # NULL

\* ----------------------------------------------------------- the system
Pool == [items |-> items, available |-> available, mem |-> mem]

\* Addresses Box::new may return: any address no live Box occupies.
FreshAddrs(its) == Addr \ Range(its)

\* The address the allocation inside get() can return (none is made when
\* the free list has a handle to pop).
AllocChoice(st) ==
    IF GetTakesFree(st.available) THEN {NULL} ELSE FreshAddrs(st.items)

SetPool(st) ==
    /\ items' = st.items
    /\ available' = st.available
    /\ mem' = st.mem

\* last: the operation, the handle it took or returned, the value the
\* instance had before a release, and the count given to reserve.
\* prev: the operation before last, kept when it was a release, a drop or
\* a clear.
Op(op, h, val0, n) == [op |-> op, h |-> h, val0 |-> val0, n |-> n]

NoOp == Op("other", NULL, 0, 0)

NoDuplicates(s) == \A i, j \in 1..Len(s) : i # j => s[i] # s[j]

\* acq, kept in runs that start with acq.track: the PoolBox values acquired
\* one after the other and all held (k of them, holding the handles hs),
\* from a pool with len() = L and available() = a whose free handles were
\* distinct stored instances, none of them outstanding; then how many of
\* them have been dropped (j).  Any other operation ends the run.
NoAcq == [track |-> FALSE, run |-> FALSE, L |-> 0, a |-> 0, k |-> 0,
          hs |-> {}, j |-> 0]

AcqIdle == [NoAcq EXCEPT !.track = TRUE]

AcqStart ==
    /\ NoDuplicates(available)
    /\ Range(available) \subseteq Range(items)
    /\ Range(available) \cap lent = {}

AcqNext(op, h) ==
    IF ~acq.track THEN acq
    ELSE IF op = "box_new"
    THEN IF acq.run /\ acq.j = 0
         THEN [acq EXCEPT !.k = @ + 1, !.hs = @ \cup {h}]
         ELSE IF AcqStart
         THEN [track |-> TRUE, run |-> TRUE, L |-> Len(items),
               a |-> Len(available), k |-> 1, hs |-> {h}, j |-> 0]
         ELSE AcqIdle
    ELSE IF op = "drop" /\ acq.run /\ h \in acq.hs
    THEN [acq EXCEPT !.j = @ + 1, !.hs = @ \ {h}]
    ELSE AcqIdle

\* tally, kept in runs that start with tally.track: the number of get
\* calls (lent_count), of get calls that constructed a new instance
\* (storage_growth_events) and of release calls (released_count).
NoTally == [track |-> FALSE, lent_count |-> 0, storage_growth_events |-> 0,
            released_count |-> 0]

TallyNext(op, h) ==
    IF ~tally.track THEN tally
    ELSE IF op \in {"get", "box_new"}
    THEN [tally EXCEPT !.lent_count = @ + 1,
                       !.storage_growth_events =
                           IF GetTakesFree(available) THEN @ ELSE @ + 1]
    ELSE IF op = "release" \/ (op = "drop" /\ DropReleases(h))
    THEN [tally EXCEPT !.released_count = @ + 1]
    ELSE tally

\* The counted runs stop at MaxOps get calls.
WithinOps == tally.track => tally.lent_count < MaxOps

\* twin, kept in runs that start with twin.track: a standalone ObjectPool
\* that is given get() for every AutoReturnObjectPool::get, release(item)
\* for every PoolBox that goes out of scope and the same writes, the
\* allocator returning the same address to both pools; ptr is the handle
\* its last get() returned.
NoTwin == [track |-> FALSE, st |-> PoolNew, ptr |-> NULL]

TwinNext(op, h) ==
    IF ~twin.track THEN twin
    ELSE IF op = "box_new"
    THEN [twin EXCEPT !.st = PoolGet(twin.st, h).st,
                      !.ptr = PoolGet(twin.st, h).ptr]
    ELSE IF op = "drop"
    THEN [twin EXCEPT !.st = PoolRelease(twin.st, h)]
    ELSE IF op = "write"
    THEN [twin EXCEPT !.st.mem = Store(@, h, Written)]
    ELSE twin

Note(op, h, val0, n) ==
    /\ last' = Op(op, h, val0, n)
    /\ twin' = TwinNext(op, h)
    /\ tally' = TallyNext(op, h)
    /\ prev' = IF last.op \in {"release", "drop", "clear"} THEN last ELSE NoOp
    /\ acq' = AcqNext(op, h)

InitState ==
    /\ items = PoolNew.items
    /\ available = PoolNew.available
    /\ mem = PoolNew.mem
    /\ boxes = [h \in Handles |-> 0]
    /\ held = [a \in Addr |-> 0]
    /\ lent = {}
    /\ last = Op("new", NULL, 0, 0)
    /\ prev = NoOp

Init ==
    /\ InitState
    /\ acq = NoAcq
    /\ tally = NoTally
    /\ twin = NoTwin

InitAcquire ==
    /\ InitState
    /\ acq = AcqIdle
    /\ tally = NoTally
    /\ twin = NoTwin

InitTally ==
    /\ InitState
    /\ acq = NoAcq
    /\ tally = [NoTally EXCEPT !.track = TRUE]
    /\ twin = NoTwin

InitTwin ==
    /\ InitState
    /\ acq = NoAcq
    /\ tally = NoTally
    /\ twin = [NoTwin EXCEPT !.track = TRUE]

Reserve(n) ==
    /\ Len(available) + n <= MaxAvail
    /\ \E as \in AllocSeqs(FreshAddrs(items), n) :
          SetPool(PoolReserve(Pool, as))
    /\ Note("reserve", NULL, 0, n)
    /\ UNCHANGED <<boxes, held, lent>>

Get ==
    /\ OutCount < MaxOut
    /\ WithinOps
    /\ \E a \in AllocChoice(Pool) :
          LET r == PoolGet(Pool, a) IN
          /\ SetPool(r.st)
          /\ held' = [held EXCEPT ![r.ptr] = @ + 1]
          /\ lent' = lent \cup {r.ptr}
          /\ Note("get", r.ptr, 0, 0)
    /\ UNCHANGED boxes

Release(h) ==
    /\ held[h] > 0
    /\ Len(available) < MaxAvail
    /\ SetPool(PoolRelease(Pool, h))
    /\ held' = [held EXCEPT ![h] = @ - 1]
    /\ lent' = lent \ {h}
    /\ Note("release", h, mem[h], 0)
    /\ UNCHANGED boxes

ReleaseAll ==
    /\ Len(available) + Len(items) <= MaxAvail
    /\ SetPool(PoolReleaseAll(Pool))
    /\ lent' = {}
    /\ Note("release_all", NULL, 0, 0)
    /\ UNCHANGED <<boxes, held>>

Clear ==
    /\ SetPool(PoolClear(Pool))
    /\ lent' = {}
    /\ Note("clear", NULL, 0, 0)
    /\ UNCHANGED <<boxes, held>>

PoolBoxNew ==
    /\ OutCount < MaxOut
    /\ WithinOps
    /\ \E a \in AllocChoice(Pool) :
          LET r == PoolGet(Pool, a) IN
          /\ SetPool(r.st)
          /\ boxes' = BoxNew(boxes, r.ptr)
          /\ lent' = lent \cup {r.ptr}
          /\ Note("box_new", r.ptr, 0, 0)
    /\ UNCHANGED held

\* ref_mut_item().value = Written, on a PoolBox whose item is `item`
RefMutItem(item) ==
    /\ boxes[item] > 0
    /\ item # NULL
    /\ mem[item] # Freed
    /\ mem' = Store(mem, item, Written)
    /\ Note("write", item, 0, 0)
    /\ UNCHANGED <<items, available, boxes, held, lent>>

\* (*item).value = Written through a raw handle the caller holds
RawWrite(h) ==
    /\ held[h] > 0
    /\ mem[h] # Freed
    /\ mem' = Store(mem, h, Written)
    /\ Note("raw_write", h, 0, 0)
    /\ UNCHANGED <<items, available, boxes, held, lent>>

\* extract() on a PoolBox whose item is `item`; the caller keeps the
\* handle it returns.
Extract(item) ==
    /\ boxes[item] > 0
    /\ item # NULL => OutCount < MaxOut
    /\ boxes' = BoxExtract(boxes, item)
    /\ held' = IF item = NULL THEN held ELSE [held EXCEPT ![item] = @ + 1]
    /\ Note("extract", item, 0, 0)
    /\ UNCHANGED <<items, available, mem, lent>>

\* A PoolBox whose item is `item` goes out of scope.
Drop(item) ==
    /\ boxes[item] > 0
    /\ boxes' = BoxGone(boxes, item)
    /\ IF DropReleases(item)
       THEN /\ Len(available) < MaxAvail
            /\ SetPool(PoolRelease(Pool, item))
            /\ lent' = lent \ {item}
            /\ Note("drop", item, mem[item], 0)
       ELSE /\ Note("drop", item, 0, 0)
            /\ UNCHANGED <<items, available, mem, lent>>
    /\ UNCHANGED held

\* AutoReturnObjectPool::get: PoolBox::new(&mut self.pool)
AutoReturnObjectPoolGet == PoolBoxNew

Next ==
    \/ \E n \in 0..NAddr : Reserve(n)
    \/ Get
    \/ \E h \in Addr : Release(h)
    \/ ReleaseAll
    \/ Clear
    \/ PoolBoxNew
    \/ \E item \in Handles : RefMutItem(item)
    \/ \E h \in Addr : RawWrite(h)
    \/ \E item \in Handles : Extract(item)
    \/ \E item \in Handles : Drop(item)

Spec == Init /\ [][Next]_vars

\* A new pool used through get and release only (raw or through PoolBox),
\* with the calls counted.
NextGetRelease ==
    \/ Get
    \/ \E h \in Addr : Release(h)
    \/ PoolBoxNew
    \/ \E item \in Handles : RefMutItem(item)
    \/ \E h \in Addr : RawWrite(h)
    \/ \E item \in Handles : Extract(item)
    \/ \E item \in Handles : Drop(item)

SpecTally == InitTally /\ [][NextGetRelease]_vars

\* An AutoReturnObjectPool used through get and the PoolBox values it
\* returns, next to a standalone pool given the corresponding raw calls.
NextBundle ==
    \/ AutoReturnObjectPoolGet
    \/ \E item \in Handles : RefMutItem(item)
    \/ \E item \in Handles : Drop(item)

SpecTwin == InitTwin /\ [][NextBundle]_vars

\* The program without release_all and clear.
NextNoReclaim ==
    \/ \E n \in 0..NAddr : Reserve(n)
    \/ Get
    \/ \E h \in Addr : Release(h)
    \/ PoolBoxNew
    \/ \E item \in Handles : RefMutItem(item)
    \/ \E h \in Addr : RawWrite(h)
    \/ \E item \in Handles : Extract(item)
    \/ \E item \in Handles : Drop(item)

SpecNoReclaim == Init /\ [][NextNoReclaim]_vars

\* The program with callers that write to an instance only while it is
\* outstanding.
RefMutItemLent(item) == item \in lent /\ RefMutItem(item)

RawWriteLent(h) == h \in lent /\ RawWrite(h)

NextLentWrites ==
    \/ \E n \in 0..NAddr : Reserve(n)
    \/ Get
    \/ \E h \in Addr : Release(h)
    \/ ReleaseAll
    \/ Clear
    \/ PoolBoxNew
    \/ \E item \in Handles : RefMutItemLent(item)
    \/ \E h \in Addr : RawWriteLent(h)
    \/ \E item \in Handles : Extract(item)
    \/ \E item \in Handles : Drop(item)

SpecLentWrites == Init /\ [][NextLentWrites]_vars

\* The same program, with the runs of acquisitions recorded.
SpecAcquire == InitAcquire /\ [][Next]_vars

\* ---------------------------------------------------------- properties
IsGet(op) == op \in {"get", "box_new"}

IsRelease(o) == o.op \in {"release", "drop"} /\ o.h # NULL

\* C1: a PoolBox that goes out of scope without having been extracted
\* releases its instance exactly once: the handle is pushed once onto the
\* free list, so available() grows by one, and len() is unchanged.
C1_DropReleasesOnce ==
    [][(last'.op = "drop" /\ last'.h # NULL) =>
          /\ boxes' = BoxGone(boxes, last'.h)
          /\ available' = Append(available, last'.h)
          /\ PoolAvailable(Pool)' = PoolAvailable(Pool) + 1
          /\ items' = items
          /\ PoolLen(Pool)' = PoolLen(Pool)]_vars

C1_Witness ==
    /\ last.op = "drop" /\ last.h # NULL
    /\ PoolLen(Pool) = 1 /\ available = <<last.h>>
    /\ boxes[last.h] = 0

\* C2: no handle appears twice in the free list, and an instance returned
\* by get and not released since is not in the free list.
C2_FreeListDistinctNotLent ==
    /\ NoDuplicates(available)
    /\ lent \cap Range(available) = {}

\* C3: every handle in the free list refers to an instance held in storage.
C3_FreeListInStorage == Range(available) \subseteq Range(items)

\* C4: get and PoolBox::new never return a handle to an instance that is
\* still outstanding.
C4_GetNeverReturnsLent ==
    [][IsGet(last'.op) => last'.h \notin lent]_vars

\* C5: every release raises available() by exactly 1; every get lowers
\* available() by exactly 1 when it was positive, and otherwise raises
\* len() by exactly 1.
C5_GetReleaseCounts ==
    [][/\ IsRelease(last') =>
             PoolAvailable(Pool)' = PoolAvailable(Pool) + 1
       /\ IsGet(last'.op) =>
             IF PoolAvailable(Pool) > 0
             THEN /\ PoolAvailable(Pool)' = PoolAvailable(Pool) - 1
                  /\ PoolLen(Pool)' = PoolLen(Pool)
             ELSE /\ PoolLen(Pool)' = PoolLen(Pool) + 1
                  /\ PoolAvailable(Pool)' = 0]_vars

C5_Witness ==
    /\ IsGet(last.op) /\ IsRelease(prev)
    /\ PoolLen(Pool) = 2 /\ PoolAvailable(Pool) = 0

\* C6: release_all() leaves available() = len(), the free list holding
\* every stored instance, and every stored instance in its default state.
C6_ReleaseAllRebuilds ==
    [][last'.op = "release_all" =>
          /\ PoolAvailable(Pool)' = PoolLen(Pool)'
          /\ Range(available') = Range(items')
          /\ \A a \in Range(items') : mem'[a] = DefaultValue]_vars

\* C7: reserve(n) raises len() and available() by exactly n: it appends n
\* newly constructed instances, distinct from each other and from every
\* stored instance, to storage and to the free list, and leaves what was
\* there in place.
C7_ReserveAddsN ==
    [][last'.op = "reserve" =>
          LET n  == last'.n
              l0 == Len(items)
              a0 == Len(available)
          IN  /\ PoolLen(Pool)' = l0 + n
              /\ PoolAvailable(Pool)' = a0 + n
              /\ SubSeq(items', 1, l0) = items
              /\ SubSeq(available', 1, a0) = available
              /\ SubSeq(items', l0 + 1, l0 + n) = SubSeq(available', a0 + 1, a0 + n)
              /\ NoDuplicates(items')
              /\ \A i \in 1..n : mem'[items'[l0 + i]] = DefaultValue
              /\ \A a \in Range(items) : mem'[a] = mem[a]]_vars

C7_Witness ==
    /\ last.op = "reserve" /\ last.n = 1
    /\ PoolLen(Pool) = 2 /\ PoolAvailable(Pool) = 1
    /\ lent # {}

\* C8: extract() nulls the wrapper's handle and returns the handle it
\* held, without touching the instance's value or the free list; the later
\* drop of that wrapper releases nothing.
C8_ExtractDisarms ==
    [][/\ (last'.op = "extract" /\ last'.h # NULL) =>
             /\ boxes[last'.h] > 0
             /\ boxes' = [boxes EXCEPT ![last'.h] = @ - 1, ![NULL] = @ + 1]
             /\ held' = [held EXCEPT ![last'.h] = @ + 1]
             /\ mem' = mem /\ available' = available /\ items' = items
       /\ (last'.op = "drop" /\ last'.h = NULL) =>
             /\ boxes' = [boxes EXCEPT ![NULL] = @ - 1]
             /\ mem' = mem /\ available' = available /\ items' = items]_vars

C8_Witness ==
    /\ last.op = "drop" /\ last.h = NULL
    /\ \E a \in Addr :
          /\ held[a] > 0 /\ boxes[a] = 0
          /\ a \in Range(items) /\ a \notin Range(available)
          /\ mem[a] = Written

\* C9: release resets the instance, and a get that immediately follows the
\* release of a stored instance returns that instance, unmodified by get,
\* in the default state.
C9_ReleaseGetRoundTrip ==
    [][/\ (IsRelease(last') /\ last'.h \in Range(items)) =>
             mem'[last'.h] = DefaultValue
       /\ (IsGet(last'.op) /\ IsRelease(last) /\ last.h \in Range(items)) =>
             /\ last'.h = last.h
             /\ mem' = mem
             /\ mem'[last'.h] = DefaultValue]_vars

C9_Witness ==
    /\ IsGet(last.op) /\ IsRelease(prev)
    /\ prev.h = last.h
    /\ prev.val0 = Written
    /\ mem[last.h] = DefaultValue

\* C10: clear() leaves len() = 0 and available() = 0, and a get on the
\* cleared pool constructs a fresh instance: len() = 1, available() = 0.
C10_ClearEmpties ==
    [][/\ last'.op = "clear" =>
             PoolLen(Pool)' = 0 /\ PoolAvailable(Pool)' = 0
       /\ (IsGet(last'.op) /\ last.op = "clear") =>
             /\ PoolLen(Pool)' = 1 /\ PoolAvailable(Pool)' = 0
             /\ items' = <<last'.h>>
             /\ mem'[last'.h] = DefaultValue]_vars

C10_Witness ==
    /\ IsGet(last.op) /\ prev.op = "clear"
    /\ PoolLen(Pool) = 1 /\ PoolAvailable(Pool) = 0
    /\ \E h \in Addr : h # last.h /\ boxes[h] > 0
\* C11: k PoolBox values acquired one after the other and all held, from
\* a pool with len() = L and available() = a whose free handles are
\* distinct stored instances that are not outstanding, hold k distinct
\* instances, with len() = L + max(0, k - a) and available() =
\* max(0, a - k); each of them dropped then raises available() by one and
\* leaves len() unchanged.
Max(x, y) == IF x >= y THEN x ELSE y

C11_AcquireKHandles ==
    acq.run =>
       /\ PoolLen(Pool) = acq.L + Max(0, acq.k - acq.a)
       /\ PoolAvailable(Pool) = Max(0, acq.a - acq.k) + acq.j
       /\ Cardinality(acq.hs) = acq.k - acq.j
       /\ \A h \in acq.hs : boxes[h] >= 1

C11_Witness ==
    /\ acq.run /\ acq.L = 0 /\ acq.a = 0
    /\ acq.k = 2 /\ acq.j = 2
    /\ PoolLen(Pool) = 2 /\ PoolAvailable(Pool) = 2
\* C12: from a new pool, after any sequence of get and release of an
\* outstanding handle, available() = released_count - (lent_count -
\* storage_growth_events), and storage_growth_events = len().
C12_AvailableFromCounts ==
    tally.track =>
       /\ PoolAvailable(Pool) =
             tally.released_count
                - (tally.lent_count - tally.storage_growth_events)
       /\ tally.storage_growth_events = PoolLen(Pool)

C12_Witness ==
    /\ tally.track
    /\ tally.lent_count = 3 /\ tally.released_count = 2
    /\ tally.storage_growth_events = 2
    /\ PoolAvailable(Pool) = 1
\* C13: a PoolBox goes from Lent to Detached by extract() and leaves
\* either state only by going out of scope: the only step that adds a
\* Lent wrapper is PoolBox::new, which makes a new wrapper; extract() on a
\* Detached wrapper returns null and changes nothing; a Detached wrapper
\* that goes out of scope releases nothing; a Lent one releases exactly
\* once, as it ceases to exist.
Wrappers(bxs) == SumOver(bxs, Handles)

C13_WrapperStateMachine ==
    [][/\ (\E h \in Addr : boxes'[h] > boxes[h]) =>
             /\ last'.op = "box_new"
             /\ Wrappers(boxes') = Wrappers(boxes) + 1
             /\ boxes'[NULL] = boxes[NULL]
       /\ boxes'[NULL] > boxes[NULL] =>
             /\ last'.op = "extract" /\ last'.h # NULL
             /\ boxes' = [boxes EXCEPT ![last'.h] = @ - 1, ![NULL] = @ + 1]
             /\ available' = available
       /\ (last'.op = "extract" /\ last'.h # NULL) =>
             /\ boxes'[last'.h] = boxes[last'.h] - 1
             /\ boxes'[NULL] = boxes[NULL] + 1
       /\ (last'.op = "extract" /\ last'.h = NULL) =>
             /\ boxes[NULL] > 0
             /\ UNCHANGED <<items, available, mem, boxes, held, lent>>
       /\ last'.op = "drop" =>
             /\ boxes[last'.h] > 0
             /\ boxes' = [boxes EXCEPT ![last'.h] = @ - 1]
             /\ available' = IF last'.h = NULL THEN available
                             ELSE Append(available, last'.h)
       /\ (last'.op \notin {"drop", "release", "release_all", "reserve"}) =>
             Len(available') <= Len(available)]_vars

C13_Witness ==
    /\ last.op = "extract" /\ last.h = NULL
    /\ boxes[NULL] = 1 /\ Wrappers(boxes) = 1
    /\ \E a \in Addr : held[a] > 0 /\ a \notin Range(available)
\* C14: get() on an empty free list appends exactly one newly constructed
\* instance, in its default state and at a handle storage did not hold, to
\* storage and returns that handle, the free list staying empty; get() on
\* a non-empty free list removes exactly one handle from it, returns it,
\* and leaves storage unchanged.
C14_GetEffect ==
    [][IsGet(last'.op) =>
          IF available = <<>>
          THEN /\ last'.h \notin Range(items)
               /\ items' = Append(items, last'.h)
               /\ PoolLen(Pool)' = PoolLen(Pool) + 1
               /\ available' = <<>>
               /\ mem'[last'.h] = DefaultValue
               /\ \A a \in Range(items) : mem'[a] = mem[a]
          ELSE /\ available = Append(available', last'.h)
               /\ items' = items
               /\ PoolLen(Pool)' = PoolLen(Pool)
               /\ mem' = mem]_vars

C14_Witness ==
    /\ IsGet(last.op) /\ IsRelease(prev) /\ prev.h = last.h
    /\ PoolLen(Pool) = 2 /\ PoolAvailable(Pool) = 1
    /\ last.h \notin Range(available)
\* C15: len() decreases only by clear(); it grows only by reserve and by
\* a get on an empty free list; release, release_all, a PoolBox going out
\* of scope, extract and writes to an instance leave storage unchanged.
C15_StorageChanges ==
    [][/\ last'.op # "clear" =>
             /\ PoolLen(Pool)' >= PoolLen(Pool)
             /\ SubSeq(items', 1, Len(items)) = items
       /\ PoolLen(Pool)' > PoolLen(Pool) =>
             \/ last'.op = "reserve" /\ last'.n > 0
             \/ IsGet(last'.op) /\ available = <<>>
       /\ last'.op \in {"release", "release_all", "drop", "extract",
                         "write", "raw_write"} =>
             items' = items]_vars

C15_Witness ==
    /\ last.op = "release"
    /\ PoolLen(Pool) = 2 /\ PoolAvailable(Pool) = 2
\* C16: AutoReturnObjectPool::get does to the bundled pool what
\* ObjectPool::get does to a standalone pool and returns the same handle,
\* wrapped in a Lent PoolBox: after any sequence of get and drop on the
\* bundle, the bundled pool equals the standalone pool given the
\* corresponding get and release calls.
C16_BundleMatchesRawPool ==
    twin.track =>
       /\ Pool = twin.st
       /\ last.op = "box_new" =>
             /\ last.h = twin.ptr
             /\ last.h # NULL
             /\ boxes[last.h] > 0

C16_Witness ==
    /\ twin.track
    /\ last.op = "box_new" /\ IsRelease(prev) /\ prev.val0 = Written
    /\ Pool = twin.st /\ last.h = twin.ptr
    /\ PoolLen(twin.st) = 2
\* C17: without release_all and clear, every stored instance is either
\* free or outstanding and never both, the outstanding ones being those
\* the caller holds a PoolBox or a raw handle for, so len() = available()
\* + the number of outstanding instances, and available() <= len().
C17_FreeOrOutstanding ==
    /\ NoDuplicates(items) /\ NoDuplicates(available)
    /\ Range(available) \cup lent = Range(items)
    /\ Range(available) \cap lent = {}
    /\ lent = {a \in Addr : boxes[a] + held[a] > 0}
    /\ \A a \in Addr : boxes[a] + held[a] <= 1
    /\ PoolLen(Pool) = PoolAvailable(Pool) + Cardinality(lent)
    /\ PoolAvailable(Pool) <= PoolLen(Pool)

C17_Witness ==
    /\ last.op = "extract" /\ last.h # NULL
    /\ PoolLen(Pool) = 2 /\ PoolAvailable(Pool) = 1
    /\ lent = {last.h} /\ held[last.h] = 1
\* C18: when callers write to an instance only while it is outstanding,
\* every stored instance in the free list is in the default state, and so
\* is the instance a get has just returned.
C18_FreeInstancesDefault ==
    /\ \A a \in Range(available) \cap Range(items) : mem[a] = DefaultValue
    /\ (IsGet(last.op) /\ last.h \in Range(items)) =>
          mem[last.h] = DefaultValue

\* C19: the free list is last-in-first-out: a get on a non-empty free list
\* returns its last handle and leaves the handles before it in their
\* order; reserve, release, a PoolBox going out of scope and release_all
\* add at the end, so a get right after one of them returns the handle it
\* added last, and a get right after a release returns the released one.
C19_LifoReuse ==
    [][/\ (IsGet(last'.op) /\ available # <<>>) =>
             /\ last'.h = available[Len(available)]
             /\ available' = SubSeq(available, 1, Len(available) - 1)
       /\ IsRelease(last') => available' = Append(available, last'.h)
       /\ last'.op = "reserve" =>
             available' =
                 available \o SubSeq(items', Len(items) + 1, Len(items'))
       /\ last'.op = "release_all" => available' = available \o items
       /\ (IsGet(last'.op) /\ IsRelease(last)) => last'.h = last.h
       /\ (IsGet(last'.op) /\ last.op = "reserve" /\ last.n > 0) =>
             last'.h = items[Len(items)]
       /\ (IsGet(last'.op) /\ last.op = "release_all" /\ items # <<>>) =>
             last'.h = items[Len(items)]]_vars

C19_Witness ==
    /\ IsGet(last.op) /\ IsRelease(prev) /\ prev.h = last.h
    /\ Len(items) = 2 /\ items[1] = last.h
    /\ available = <<items[2]>>

====
